---------------------------- MODULE Spec2Model ----------------------------
(***************************************************************************)
(* react-native-responsive-hook: the module-level API of index.js (the     *)
(* screenWidth/screenHeight globals, the orientation listener pair and the *)
(* conversion functions) and the useResponsive hook, with the constants    *)
(* of constants.js.                                                        *)
(*                                                                         *)
(* JavaScript numbers are modelled as exact rationals [n, d] in lowest     *)
(* terms, d = 0 standing for NaN.  Where the rounding of IEEE-754 doubles  *)
(* decides a result on the inputs enumerated below (the viewport units),   *)
(* the doubles are computed bit for bit; elsewhere exact arithmetic gives   *)
(* the doubles' results on those inputs.  Strings are sequences of         *)
(* one-character strings.                                                  *)
(***************************************************************************)
EXTENDS Integers, Sequences, FiniteSets

VARIABLES
    window,           \* Dimensions.get('window'): [width, height]
    pixelRatio,       \* PixelRatio.get(), fixed per device
    loaded,           \* whether evaluating index.js completed
    loadWindow,       \* history: the window lines 7 and 10 read at load
    screenWidth,      \* index.js: let screenWidth
    screenHeight,     \* index.js: let screenHeight
    base,             \* index.js: const base
    isLandscape,      \* index.js: const isLandscape
    isPortrait,       \* index.js: const isPortrait
    breakpointGroup,  \* index.js: const breakpointGroup
    listeners,        \* Dimensions 'change' handlers, in registration order
    nextHandler,      \* identity of the next function object created
    nextInstance,     \* identity of the next component instance created
    mounted,          \* the mounted instance of the class component, 0 if none
    orientation,      \* instance -> its state.orientation
    notified,         \* instances whose setState the last 'change' event called
    hook,             \* what the last render of useResponsive returned
    ret               \* the last conversion call: [fn, arg, value]

vars == <<window, pixelRatio, loaded, loadWindow, screenWidth, screenHeight, base,
          isLandscape, isPortrait, breakpointGroup, listeners, nextHandler,
          nextInstance, mounted, orientation, notified, hook, ret>>

moduleVars == <<loaded, loadWindow, screenWidth, screenHeight, base, isLandscape,
                isPortrait, breakpointGroup>>

componentVars == <<listeners, nextHandler, nextInstance, mounted,
                   orientation, notified>>

-----------------------------------------------------------------------------
(* JavaScript numbers                                                      *)

Abs(k) == IF k < 0 THEN -k ELSE k

RECURSIVE Gcd(_, _)
Gcd(a, b) == IF b = 0 THEN a ELSE Gcd(b, a % b)

NaN == [n |-> 0, d |-> 0]

IsNaN(x) == x.d = 0

\* n / d in lowest terms, the sign carried by the numerator (d # 0).
Rat(n, d) ==
    LET g == Gcd(Abs(n), Abs(d))
        s == IF d < 0 THEN -1 ELSE 1
    IN  [n |-> s * (n \div g), d |-> s * (d \div g)]

Num(k) == [n |-> k, d |-> 1]

\* x * y
Mul(x, y) == IF IsNaN(x) \/ IsNaN(y) THEN NaN ELSE Rat(x.n * y.n, x.d * y.d)

\* x / y; every divisor in the program is a non-zero constant or PixelRatio.get()
Div(x, y) == IF IsNaN(x) \/ IsNaN(y) THEN NaN ELSE Rat(x.n * y.d, x.d * y.n)

\* x < y, x <= y, x > y, x >= y: false when either side is NaN
Lt(x, y) == ~IsNaN(x) /\ ~IsNaN(y) /\ x.n * y.d < y.n * x.d

Le(x, y) == ~IsNaN(x) /\ ~IsNaN(y) /\ x.n * y.d <= y.n * x.d

Gt(x, y) == Lt(y, x)

Ge(x, y) == Le(y, x)

\* Math.floor
MathFloor(x) == IF IsNaN(x) THEN NaN ELSE Num(x.n \div x.d)

\* Math.round: the nearest integer, a tie going up
MathRound(x) == IF IsNaN(x) THEN NaN ELSE Num((2 * x.n + x.d) \div (2 * x.d))

\* Math.max, Math.min: NaN when either argument is
MathMax(x, y) == IF IsNaN(x) \/ IsNaN(y) THEN NaN ELSE IF Lt(x, y) THEN y ELSE x

MathMin(x, y) == IF IsNaN(x) \/ IsNaN(y) THEN NaN ELSE IF Lt(y, x) THEN y ELSE x

-----------------------------------------------------------------------------
(* IEEE-754 double arithmetic where rounding decides the result            *)
(*                                                                         *)
(* (w / c) * e rounds twice, and Math.floor of it is one less than the     *)
(* floor of the exact product when the rounded product falls just below an *)
(* integer: Math.floor((812 / 100) * 100) is 811.  A 53-bit significand    *)
(* does not fit a 32-bit integer, so natural numbers are sequences of      *)
(* limbs in base 2^15, the least significant first.                        *)

BigBase == 2^15

RECURSIVE Pow2(_)
Pow2(k) == IF k = 0 THEN 1 ELSE 2 * Pow2(k - 1)

RECURSIVE Log2(_)
Log2(k) == IF k <= 1 THEN 0 ELSE 1 + Log2(k \div 2)

RECURSIVE BitLen(_)
BitLen(k) == IF k = 0 THEN 0 ELSE 1 + BitLen(k \div 2)

RECURSIVE BigOfInt(_)
BigOfInt(k) == IF k = 0 THEN <<>> ELSE <<k % BigBase>> \o BigOfInt(k \div BigBase)

RECURSIVE BigToInt(_)
BigToInt(a) == IF a = <<>> THEN 0 ELSE a[1] + BigBase * BigToInt(Tail(a))

RECURSIVE BigTrim(_)
BigTrim(a) ==
    IF a # <<>> /\ a[Len(a)] = 0 THEN BigTrim(SubSeq(a, 1, Len(a) - 1)) ELSE a

BigBitLen(a) ==
    LET t == BigTrim(a)
    IN  IF t = <<>> THEN 0 ELSE 15 * (Len(t) - 1) + BitLen(t[Len(t)])

BigIsOdd(a) == a # <<>> /\ a[1] % 2 = 1

\* a * c + carry, for c and carry below 2^15
RECURSIVE BigMulSmall(_, _, _)
BigMulSmall(a, c, carry) ==
    IF a = <<>>
    THEN BigOfInt(carry)
    ELSE LET t == a[1] * c + carry
         IN  <<t % BigBase>> \o BigMulSmall(Tail(a), c, t \div BigBase)

\* a + c, for c below 2^15
RECURSIVE BigAddSmall(_, _)
BigAddSmall(a, c) ==
    IF c = 0 THEN a
    ELSE IF a = <<>> THEN <<c>>
    ELSE LET t == a[1] + c
         IN  <<t % BigBase>> \o BigAddSmall(Tail(a), t \div BigBase)

\* the quotient and remainder of the limbs a[1..i] with r carried in from
\* above, by c <= 2^15
RECURSIVE BigDivStep(_, _, _, _)
BigDivStep(a, c, i, r) ==
    IF i = 0
    THEN [q |-> <<>>, r |-> r]
    ELSE LET cur  == r * BigBase + a[i]
             rest == BigDivStep(a, c, i - 1, cur % c)
         IN  [q |-> Append(rest.q, cur \div c), r |-> rest.r]

BigDivSmall(a, c) ==
    LET d == BigDivStep(a, c, Len(a), 0) IN [q |-> BigTrim(d.q), r |-> d.r]

\* a * 2^k
BigShiftLeft(a, k) ==
    [i \in 1..(k \div 15) |-> 0] \o BigMulSmall(a, Pow2(k % 15), 0)

\* a / (c * 2^t) rounded to the nearest integer, a tie to the even one, for
\* c * 2^t <= 2^15
BigDivRound(a, c, t) ==
    LET by == c * Pow2(t)
        d  == BigDivSmall(a, by)
        up == 2 * d.r > by \/ (2 * d.r = by /\ BigIsOdd(d.q))
    IN  IF up THEN BigAddSmall(d.q, 1) ELSE d.q

\* floor(a / 2^s) and whether the division was exact
BigShiftRight(a, s) ==
    LET n    == s \div 15
        low  == SubSeq(a, 1, IF n < Len(a) THEN n ELSE Len(a))
        high == IF n < Len(a) THEN SubSeq(a, n + 1, Len(a)) ELSE <<>>
        d    == BigDivSmall(high, Pow2(s % 15))
    IN  [q |-> d.q, exact |-> d.r = 0 /\ \A i \in 1..Len(low) : low[i] = 0]

\* the double nearest to w / c as [m, k], meaning m * 2^(-k) with m of 53
\* bits, for integers 0 < w < 2^22 and 0 < c <= 2^15
DoubleQuotient(w, c) ==
    LET wide == BigDivSmall(BigShiftLeft(BigOfInt(w), 75), c).q
        k    == 75 - (BigBitLen(wide) - 53)
    IN  [m |-> BigDivRound(BigShiftLeft(BigOfInt(w), k), c, 0), k |-> k]

\* Math.floor((w / c) * e) for an integer w >= 0, an integer c > 0 and a
\* double e that is a multiple of a power of two with |e.n| < 2^15
FloorOfQuotientTimes(w, c, e) ==
    IF IsNaN(e) THEN NaN
    ELSE IF w = 0 \/ e.n = 0 THEN Num(0)
    ELSE LET q     == DoubleQuotient(w, c)
             exact == BigMulSmall(q.m, Abs(e.n), 0)
             t     == IF BigBitLen(exact) > 53 THEN BigBitLen(exact) - 53 ELSE 0
             m     == BigDivRound(exact, 1, t)
             s     == q.k + Log2(e.d) - t
             fl    == BigShiftRight(m, s)
             mag   == BigToInt(fl.q)
         IN  IF e.n > 0 THEN Num(mag)
             ELSE IF fl.exact THEN Num(-mag) ELSE Num(-mag - 1)

-----------------------------------------------------------------------------
(* JavaScript values and parseFloat                                        *)

Number(x) == [t |-> "number", v |-> x, s |-> <<>>]

String(s) == [t |-> "string", v |-> NaN, s |-> s]

Undefined == [t |-> "undefined", v |-> NaN, s |-> <<>>]

Digits == <<"0", "1", "2", "3", "4", "5", "6", "7", "8", "9">>

IsDigit(c) == \E i \in 1..10 : Digits[i] = c

DigitValue(c) == (CHOOSE i \in 1..10 : Digits[i] = c) - 1

IsWhiteSpace(c) == c = " "

\* toString of the argument parseFloat is given
toString(v) ==
    IF v.t = "undefined"
    THEN <<"u", "n", "d", "e", "f", "i", "n", "e", "d">>
    ELSE v.s

\* the first index at or after i that holds no white space
RECURSIVE SkipWhiteSpace(_, _)
SkipWhiteSpace(s, i) ==
    IF i <= Len(s) /\ IsWhiteSpace(s[i]) THEN SkipWhiteSpace(s, i + 1) ELSE i

\* the first index at or after i that holds no digit
RECURSIVE SkipDigits(_, _)
SkipDigits(s, i) ==
    IF i <= Len(s) /\ IsDigit(s[i]) THEN SkipDigits(s, i + 1) ELSE i

\* the decimal value of the digits s[i .. j-1], continuing from acc
RECURSIVE DigitsValue(_, _, _, _)
DigitsValue(s, i, j, acc) ==
    IF i >= j THEN acc ELSE DigitsValue(s, i + 1, j, 10 * acc + DigitValue(s[i]))

RECURSIVE Pow10(_)
Pow10(k) == IF k = 0 THEN 1 ELSE 10 * Pow10(k - 1)

\* a slip: the conversion of the whole string (what Number(s) does), NaN as
\* soon as anything follows the number
parseFloat_wholeString(s) ==
    LET i0   == SkipWhiteSpace(s, 1)
        neg  == i0 <= Len(s) /\ s[i0] = "-"
        i1   == IF i0 <= Len(s) /\ (s[i0] = "-" \/ s[i0] = "+") THEN i0 + 1 ELSE i0
        i2   == SkipDigits(s, i1)
        dot  == i2 <= Len(s) /\ s[i2] = "."
        i3   == IF dot THEN i2 + 1 ELSE i2
        i4   == IF dot THEN SkipDigits(s, i3) ELSE i2
        nInt == i2 - i1
        nFr  == i4 - i3
        mant == DigitsValue(s, i3, i4, DigitsValue(s, i1, i2, 0))
    IN  IF nInt + nFr = 0 \/ i4 <= Len(s)
        THEN NaN
        ELSE Rat(IF neg THEN -mant ELSE mant, Pow10(nFr))

\* parseFloat: leading white space, an optional sign, the longest prefix
\* digits [. digits] or . digits; whatever follows (a '%') is ignored; NaN
\* when that prefix has no digit.  (Exponents and "Infinity" are not in the
\* alphabet of the inputs modelled.)
parseFloat(s) ==
    LET i0   == SkipWhiteSpace(s, 1)
        neg  == i0 <= Len(s) /\ s[i0] = "-"
        i1   == IF i0 <= Len(s) /\ (s[i0] = "-" \/ s[i0] = "+") THEN i0 + 1 ELSE i0
        i2   == SkipDigits(s, i1)
        dot  == i2 <= Len(s) /\ s[i2] = "."
        i3   == IF dot THEN i2 + 1 ELSE i2
        i4   == IF dot THEN SkipDigits(s, i3) ELSE i2
        nInt == i2 - i1
        nFr  == i4 - i3
        mant == DigitsValue(s, i3, i4, DigitsValue(s, i1, i2, 0))
    IN  IF nInt + nFr = 0
        THEN NaN
        ELSE Rat(IF neg THEN -mant ELSE mant, Pow10(nFr))

-----------------------------------------------------------------------------
(* constants.js                                                            *)

baseDeviceWidth == 375

baseDeviceHeight == 812

baseFontSize == 16

maxFontScaleFactor == 2

\* the keys of the object literal in their insertion order, which is the
\* order for..in visits them in
breakpoints ==
    << [group |-> "group1", low |-> 0,    high |-> 399],
       [group |-> "group2", low |-> 400,  high |-> 599],
       [group |-> "group3", low |-> 600,  high |-> 767],
       [group |-> "group4", low |-> 768,  high |-> 1007],
       [group |-> "group5", low |-> 1008, high |-> 1279],
       [group |-> "group6", low |-> 1280, high |-> 8192] >>

\* what a function returns when it falls off its end
NoGroup == "undefined"

-----------------------------------------------------------------------------
(* helpers shared by the module-level functions and the hook               *)

\* typeof x === 'number' ? x : parseFloat(x)
ElemValue(x) == IF x.t = "number" THEN x.v ELSE parseFloat(toString(x))

\* a default parameter (size = 0): the default replaces undefined only
DefaultZero(x) == IF x.t = "undefined" THEN Number(Num(0)) ELSE x

\* PixelRatio.roundToNearestPixel(layoutSize):
\* Math.round(layoutSize * ratio) / ratio
roundToNearestPixel(layoutSize) ==
    Div(MathRound(Mul(layoutSize, pixelRatio)), pixelRatio)

\* for (group in breakpoints) if (w >= low && w <= high) return group
RECURSIVE ScanBreakpoints(_, _)
ScanBreakpoints(w, i) ==
    IF i > Len(breakpoints)
    THEN NoGroup
    ELSE IF w >= breakpoints[i].low /\ w <= breakpoints[i].high
         THEN breakpoints[i].group
         ELSE ScanBreakpoints(w, i + 1)

-----------------------------------------------------------------------------
(* index.js: the module-level conversion functions                         *)

widthPercentageToDP(widthPercent) ==
    LET elemWidth == ElemValue(widthPercent)
    IN  roundToNearestPixel(Div(Mul(Num(screenWidth), elemWidth), Num(100)))

heightPercentageToDP(heightPercent) ==
    LET elemHeight == ElemValue(heightPercent)
    IN  roundToNearestPixel(Div(Mul(Num(screenHeight), elemHeight), Num(100)))

viewportWidthPercentage(widthPercent) ==
    LET elemWidth == ElemValue(widthPercent)
    IN  FloorOfQuotientTimes(screenWidth, 100, elemWidth)

viewportHeightPercentage(heightPercent) ==
    LET elemHeight == ElemValue(heightPercent)
    IN  FloorOfQuotientTimes(screenHeight, 100, elemHeight)

\* the body of remUnit over the three globals it reads; no default parameter
\* here: an omitted size reaches parseFloat
remUnitOf(b, w, h, size) ==
    LET elemSize   == ElemValue(size)
        multiplier == IF Lt(MathMax(Num(h), Num(w)), Num(baseDeviceHeight))
                      THEN Rat(9, 10) ELSE Num(1)
    IN  MathFloor(Mul(Mul(Div(Num(b), Num(baseDeviceWidth)), elemSize),
                      multiplier))

remUnit(size) == remUnitOf(base, screenWidth, screenHeight, size)

responsiveFont(size) ==
    LET elemSize == ElemValue(size)
    IN  MathMin(Num(baseFontSize * maxFontScaleFactor), elemSize)

getBreakpointGroup == ScanBreakpoints(screenWidth, 1)

-----------------------------------------------------------------------------
(* useResponsiveScreen.js: the hook                                        *)

useResponsive_isLandscape(width, height) == width > height

\* a slip: a square window counted as portrait
useResponsive_isPortrait_orSquare(width, height) == width <= height

useResponsive_isPortrait(width, height) == width < height

useResponsive_getBreakpointGroup(width) == ScanBreakpoints(width, 1)

useResponsive_base(width, height) ==
    IF useResponsive_isLandscape(width, height) THEN height ELSE width

\* one render: the values useResponsive computes from useWindowDimensions();
\* width, height and base are what the returned closures capture
useResponsive(dims) ==
    [ width           |-> dims.width,
      height          |-> dims.height,
      isLandscape     |-> useResponsive_isLandscape(dims.width, dims.height),
      isPortrait      |-> useResponsive_isPortrait(dims.width, dims.height),
      breakpointGroup |-> useResponsive_getBreakpointGroup(dims.width),
      base            |-> useResponsive_base(dims.width, dims.height) ]

\* a slip: the other axis
wp_ofHeight(widthPercent) ==
    LET elementWidth == ElemValue(widthPercent)
    IN  roundToNearestPixel(Div(Mul(Num(hook.height), elementWidth), Num(100)))

\* a slip: the result clamped to the axis
wp_clamped(widthPercent) ==
    LET elementWidth == ElemValue(widthPercent)
    IN  MathMin(roundToNearestPixel(Div(Mul(Num(hook.width), elementWidth), Num(100))),
                Num(hook.width))

wp(widthPercent) ==
    LET elementWidth == ElemValue(widthPercent)
    IN  roundToNearestPixel(Div(Mul(Num(hook.width), elementWidth), Num(100)))

hp(heightPercent) ==
    LET elementHeight == ElemValue(heightPercent)
    IN  roundToNearestPixel(Div(Mul(Num(hook.height), elementHeight), Num(100)))

\* a slip: the pixel rounding of wp
vw_rounded(widthPercent) ==
    LET elementWidth == ElemValue(widthPercent)
    IN  roundToNearestPixel(Div(Mul(Num(hook.width), elementWidth), Num(100)))

vw(widthPercent) ==
    LET elementWidth == ElemValue(widthPercent)
    IN  FloorOfQuotientTimes(hook.width, 100, elementWidth)

vh(heightPercent) ==
    LET elementHeight == ElemValue(heightPercent)
    IN  FloorOfQuotientTimes(hook.height, 100, elementHeight)

\* a slip: <= for <, the discount reaching the base device itself
remMultiplier_atBase ==
    IF Le(MathMax(Num(hook.height), Num(hook.width)), Num(baseDeviceHeight))
    THEN Rat(9, 10) ELSE Num(1)

remMultiplier ==
    IF Lt(MathMax(Num(hook.height), Num(hook.width)), Num(baseDeviceHeight))
    THEN Rat(9, 10) ELSE Num(1)

rem(sizeArg) ==
    LET size        == DefaultZero(sizeArg)
        elementSize == ElemValue(size)
    IN  MathFloor(Mul(Mul(Div(Num(hook.base), Num(baseDeviceWidth)), elementSize),
                      remMultiplier))

\* a slip: a lower clamp at 0 added to the upper one
rf_lowerClamped(sizeArg) ==
    LET size        == DefaultZero(sizeArg)
        elementSize == ElemValue(size)
    IN  MathMax(Num(0), MathMin(Num(baseFontSize * maxFontScaleFactor), elementSize))

rf(sizeArg) ==
    LET size        == DefaultZero(sizeArg)
        elementSize == ElemValue(size)
    IN  MathMin(Num(baseFontSize * maxFontScaleFactor), elementSize)

-----------------------------------------------------------------------------
(* bounds and input sets                                                   *)

\* how many times the class component is mounted
MaxMounts == 2

Instances == 1..MaxMounts

PixelRatios == { Num(1), Rat(3, 2), Num(2), Num(3), Rat(7, 2) }

Dims(w, h) == [width |-> w, height |-> h]

\* the windows of the orientation scenarios: portrait, landscape, square,
\* below and at the base device's height, in several breakpoint groups
LifeDims ==
    { Dims(375, 812), Dims(812, 375), Dims(600, 600), Dims(320, 568),
      Dims(1280, 800) }

\* the windows the conversion functions are applied at: every breakpoint
\* bound, the widths past the last one, each with a shorter, an equal and a
\* longer height
CallWidths == { 0, 320, 375, 399, 400, 599, 600, 767, 768, 812, 1007, 1008,
                1279, 1280, 8192, 8193, 10000 }

CallHeights == { 320, 600, 812 }

CallDims == { Dims(w, h) : w \in CallWidths, h \in CallHeights }

\* the arguments the conversion functions are applied to
Inputs ==
    { Number(Num(0)), Number(Num(16)), Number(Num(40)), Number(Num(50)),
      Number(Num(100)), Number(Num(150)), Number(Num(-10)), Number(Rat(25, 2)),
      Number(NaN),
      String(<<"5", "0", "%">>), String(<<"1", "2", ".", "5", "%">>),
      String(<<"1", "0", "0">>), String(<<"-", "1", "0", "%">>),
      String(<<" ", "7">>), String(<<"a", "b", "c">>), String(<<"%">>),
      String(<<>>), Undefined }

NoCall == [fn |-> "none", arg |-> Undefined, value |-> NaN]

-----------------------------------------------------------------------------
(* module evaluation                                                       *)

\* Line 12 reads isLandscape before line 30 initialises it.  Compiled to var
\* (the React Native Babel preset) the read yields undefined, so base is
\* screenWidth; with const kept (temporal dead zone) the read throws and the
\* module never finishes loading.
baseAtLoad(w, h) ==
    LET isLandscapeRead == FALSE   \* undefined, which is falsy
    IN  IF isLandscapeRead THEN h ELSE w

InitWith(dimsSet) ==
    /\ window \in dimsSet
    /\ pixelRatio \in PixelRatios
    /\ loaded \in BOOLEAN
    /\ loadWindow = window
    /\ screenWidth = window.width
    /\ screenHeight = window.height
    /\ base = IF loaded THEN baseAtLoad(screenWidth, screenHeight) ELSE 0
    /\ isLandscape = (loaded /\ screenWidth > screenHeight)
    /\ isPortrait = (loaded /\ screenWidth < screenHeight)
    /\ breakpointGroup = IF loaded THEN ScanBreakpoints(screenWidth, 1) ELSE NoGroup
    /\ listeners = <<>>
    /\ nextHandler = 1
    /\ nextInstance = 1
    /\ mounted = 0
    /\ orientation = [i \in Instances |-> "unset"]
    /\ notified = <<>>
    /\ hook = useResponsive(window)
    /\ ret = NoCall

Init == InitWith(LifeDims)

InitCalls == InitWith(CallDims)

-----------------------------------------------------------------------------
(* index.js: the orientation listener pair                                 *)

\* Dimensions.addEventListener('change', handler)
addEventListener(handlers, handler) == Append(handlers, handler)

\* Dimensions.removeEventListener('change', handler): drops the registered
\* handlers that are this very function object
removeEventListener(handlers, handler) ==
    SelectSeq(handlers, LAMBDA h : h.id # handler.id)

\* the arrow function of lines 78-87, closed over that
listenOrientationChange(that) ==
    /\ listeners' = addEventListener(listeners, [id |-> nextHandler, that |-> that])
    /\ nextHandler' = nextHandler + 1

\* the handler passed is a new arrow function, () => {}
removeOrientationListener ==
    /\ listeners' = removeEventListener(listeners, [id |-> nextHandler, that |-> 0])
    /\ nextHandler' = nextHandler + 1

\* what a registered handler sets state.orientation to
handlerOrientation(newDimensions) ==
    IF newDimensions.width < newDimensions.height THEN "portrait" ELSE "landscape"

\* componentDidMount of a new instance of the class component
Mount ==
    /\ loaded
    /\ mounted = 0
    /\ nextInstance <= MaxMounts
    /\ mounted' = nextInstance
    /\ nextInstance' = nextInstance + 1
    /\ listenOrientationChange(nextInstance)
    /\ UNCHANGED <<window, pixelRatio, moduleVars, orientation, notified, hook, ret>>

\* componentWillUnmount of the mounted instance
Unmount ==
    /\ loaded
    /\ mounted # 0
    /\ mounted' = 0
    /\ removeOrientationListener
    /\ UNCHANGED <<window, pixelRatio, moduleVars, nextInstance, orientation,
                   notified, hook, ret>>

\* The window changes: Dimensions calls every registered handler in order,
\* each writes screenWidth and screenHeight and calls that.setState (React
\* ignores setState on an unmounted instance); the hook's component renders
\* again with the new useWindowDimensions().
DimensionsChange(newDimensions) ==
    /\ loaded
    /\ newDimensions # window
    /\ window' = newDimensions
    /\ hook' = useResponsive(newDimensions)
    /\ screenWidth' = IF listeners = <<>> THEN screenWidth ELSE newDimensions.width
    /\ screenHeight' = IF listeners = <<>> THEN screenHeight ELSE newDimensions.height
    /\ notified' = [k \in 1..Len(listeners) |-> listeners[k].that]
    /\ orientation' =
         [i \in Instances |->
            IF i = mounted /\ \E k \in 1..Len(listeners) : listeners[k].that = i
            THEN handlerOrientation(newDimensions)
            ELSE orientation[i]]
    /\ UNCHANGED <<pixelRatio, loaded, loadWindow, base, isLandscape, isPortrait,
                   breakpointGroup, listeners, nextHandler, nextInstance,
                   mounted, ret>>

Next ==
    \/ Mount
    \/ Unmount
    \/ \E d \in LifeDims : DimensionsChange(d)

Spec == Init /\ [][Next]_vars

-----------------------------------------------------------------------------
(* calls of the conversion functions                                       *)

\* a call returns its value to the caller, which takes it before it calls again
Return(fn, arg, value) ==
    /\ loaded
    /\ ret = NoCall
    /\ ret' = [fn |-> fn, arg |-> arg, value |-> value]
    /\ UNCHANGED <<window, pixelRatio, moduleVars, componentVars, hook>>

Call_wp == \E x \in Inputs : Return("wp", x, wp(x))

Call_hp == \E x \in Inputs : Return("hp", x, hp(x))

Call_vw == \E x \in Inputs : Return("vw", x, vw(x))

Call_vh == \E x \in Inputs : Return("vh", x, vh(x))

Call_rem == \E x \in Inputs : Return("rem", x, rem(x))

Call_rf == \E x \in Inputs : Return("rf", x, rf(x))

Call_widthPercentageToDP ==
    \E x \in Inputs : Return("widthPercentageToDP", x, widthPercentageToDP(x))

Call_heightPercentageToDP ==
    \E x \in Inputs : Return("heightPercentageToDP", x, heightPercentageToDP(x))

Call_viewportWidthPercentage ==
    \E x \in Inputs : Return("viewportWidthPercentage", x, viewportWidthPercentage(x))

Call_viewportHeightPercentage ==
    \E x \in Inputs : Return("viewportHeightPercentage", x, viewportHeightPercentage(x))

Call_remUnit == \E x \in Inputs : Return("remUnit", x, remUnit(x))

Call_responsiveFont == \E x \in Inputs : Return("responsiveFont", x, responsiveFont(x))

Consume ==
    /\ ret # NoCall
    /\ ret' = NoCall
    /\ UNCHANGED <<window, pixelRatio, moduleVars, componentVars, hook>>

NextCalls ==
    \/ Consume
    \/ Call_wp
    \/ Call_hp
    \/ Call_vw
    \/ Call_vh
    \/ Call_rem
    \/ Call_rf
    \/ Call_widthPercentageToDP
    \/ Call_heightPercentageToDP
    \/ Call_viewportWidthPercentage
    \/ Call_viewportHeightPercentage
    \/ Call_remUnit
    \/ Call_responsiveFont

SpecCalls == InitCalls /\ [][NextCalls]_vars

-----------------------------------------------------------------------------
(* claims                                                                  *)

\* the breakpoints whose name is g and whose interval contains w
Containing(g, w) ==
    { i \in 1..Len(breakpoints) :
        /\ breakpoints[i].group = g
        /\ breakpoints[i].low <= w
        /\ w <= breakpoints[i].high }

\* C1: breakpoint classification is a total partition of the integer widths
\* 0..10000: the hook's and the module's getBreakpointGroup return exactly one
\* breakpoint name, and that breakpoint's [low, high] contains the width.
C1_TotalPartition ==
    loaded =>
      /\ hook.width \in 0..10000 =>
           Cardinality(Containing(useResponsive_getBreakpointGroup(hook.width),
                                  hook.width)) = 1
      /\ screenWidth \in 0..10000 =>
           Cardinality(Containing(getBreakpointGroup, screenWidth)) = 1

\* C2: every listenOrientationChange is undone by the following
\* removeOrientationListener: at most one 'change' listener while the
\* component is mounted, none after it is unmounted, and a dimension change
\* calls setState only on the mounted instance and only once.
C2_ListenerPaired ==
    /\ mounted # 0 => Len(listeners) <= 1
    /\ mounted = 0 => Len(listeners) = 0
    /\ \A k \in 1..Len(notified) : notified[k] = mounted
    /\ \A j, k \in 1..Len(notified) : j # k => notified[j] # notified[k]

\* C3: no derived output is cached across viewport changes: the orientation
\* flags and breakpoint group callers read, from the hook and from the
\* module's exports, are those of the latest window.
C3_NoStaleOutput ==
    loaded =>
      /\ hook.isLandscape = (window.width > window.height)
      /\ hook.isPortrait = (window.width < window.height)
      /\ hook.breakpointGroup = ScanBreakpoints(window.width, 1)
      /\ isLandscape = (window.width > window.height)
      /\ isPortrait = (window.width < window.height)
      /\ breakpointGroup = ScanBreakpoints(window.width, 1)

\* C4: remUnit is pure in the current (screenWidth, screenHeight, size): it
\* returns what a module loaded at the current dimensions returns (such a
\* load is itself an initial state, so a difference is two reachable states
\* with the same current inputs and different outputs).
C4_RemUnitPure ==
    loaded =>
      \A x \in Inputs :
        remUnit(x) = remUnitOf(baseAtLoad(screenWidth, screenHeight),
                               screenWidth, screenHeight, x)

\* C5: the orientation flags classify their snapshot three ways: landscape
\* and not portrait when width > height, portrait and not landscape when
\* width < height, neither when width = height; never both.  The hook's
\* snapshot is the window of its render, the module's the window read at load.
C5_OrientationThreeWay ==
    loaded =>
      /\ hook.width > hook.height => hook.isLandscape /\ ~hook.isPortrait
      /\ hook.width < hook.height => hook.isPortrait /\ ~hook.isLandscape
      /\ hook.width = hook.height => ~hook.isLandscape /\ ~hook.isPortrait
      /\ loadWindow.width > loadWindow.height => isLandscape /\ ~isPortrait
      /\ loadWindow.width < loadWindow.height => isPortrait /\ ~isLandscape
      /\ loadWindow.width = loadWindow.height => ~isLandscape /\ ~isPortrait

\* the hook renders a square window after a change, and the module was
\* loaded in a portrait one
C5_Witness ==
    /\ loaded
    /\ hook.width = hook.height
    /\ ~hook.isLandscape /\ ~hook.isPortrait
    /\ loadWindow.width < loadWindow.height
    /\ isPortrait /\ ~isLandscape

\* C6: the hook's rem(size) is floor(base / baseDevice.width * size *
\* multiplier), base being height when width > height and width otherwise,
\* multiplier 0.9 exactly when max(width, height) < baseDevice.height and 1
\* otherwise; rem(16) at 375x812 is 16.
C6_RemFormula ==
    (loaded /\ ret.fn = "rem" /\ ~IsNaN(ElemValue(ret.arg))) =>
      LET w          == hook.width
          h          == hook.height
          size       == ElemValue(ret.arg)
          b          == IF w > h THEN h ELSE w
          longest    == IF w > h THEN w ELSE h
          multiplier == IF longest < baseDeviceHeight THEN Rat(9, 10) ELSE Num(1)
      IN  /\ ret.value =
               MathFloor(Mul(Mul(Div(Num(b), Num(baseDeviceWidth)), size), multiplier))
          /\ (w = 375 /\ h = 812 /\ size = Num(16)) => ret.value = Num(16)

\* rem(16) has returned 16 at 375x812
C6_Witness ==
    /\ loaded
    /\ ret.fn = "rem"
    /\ ret.arg = Number(Num(16))
    /\ hook.width = 375 /\ hook.height = 812
    /\ ret.value = Num(16)

\* C7: with the size omitted, rem and rf, and the module's remUnit and
\* responsiveFont, return 0.
C7_OmittedSizeIsZero ==
    (/\ loaded
     /\ ret.fn \in {"rem", "rf", "remUnit", "responsiveFont"}
     /\ ret.arg = Undefined) => ret.value = Num(0)

\* the percent-to-dp functions, the axis each reads and its value at y
DpFns == {"wp", "hp", "widthPercentageToDP", "heightPercentageToDP"}

DpAxis(fn) ==
    CASE fn = "wp" -> hook.width
      [] fn = "hp" -> hook.height
      [] fn = "widthPercentageToDP" -> screenWidth
      [] fn = "heightPercentageToDP" -> screenHeight

DpApply(fn, y) ==
    CASE fn = "wp" -> wp(y)
      [] fn = "hp" -> hp(y)
      [] fn = "widthPercentageToDP" -> widthPercentageToDP(y)
      [] fn = "heightPercentageToDP" -> heightPercentageToDP(y)

InPercentRange(x) == Le(Num(0), ElemValue(x)) /\ Le(ElemValue(x), Num(100))

\* C8: for a percentage p in [0, 100], wp(p) and hp(p) (and the module's
\* widthPercentageToDP and heightPercentageToDP) lie between 0 and
\* roundToNearestPixel(axis), and are non-decreasing in p.
C8_PercentBoundedMonotone ==
    (loaded /\ ret.fn \in DpFns /\ InPercentRange(ret.arg)) =>
      /\ Le(Num(0), ret.value)
      /\ Le(ret.value, roundToNearestPixel(Num(DpAxis(ret.fn))))
      /\ \A y \in Inputs :
           (InPercentRange(y) /\ Le(ElemValue(ret.arg), ElemValue(y)))
             => Le(ret.value, DpApply(ret.fn, y))

\* wp(50) has returned 187.5 at width 375 on a density-2 screen
C8_Witness ==
    /\ loaded
    /\ ret.fn = "wp"
    /\ ret.arg = Number(Num(50))
    /\ hook.width = 375
    /\ pixelRatio = Num(2)
    /\ ret.value = Rat(375, 2)

\* C9 as stated: wp and hp return a non-negative number for every percentage
\* they accept, 0 for 0, and no less than the whole axis for more than 100.
C9_NonNegativeForEveryPercent ==
    (loaded /\ ret.fn \in {"wp", "hp"} /\ ~IsNaN(ElemValue(ret.arg))) =>
      /\ Ge(ret.value, Num(0))
      /\ ElemValue(ret.arg) = Num(0) => ret.value = Num(0)
      /\ Gt(ElemValue(ret.arg), Num(100)) =>
           Ge(ret.value, roundToNearestPixel(Num(DpAxis(ret.fn))))

\* C9 amended: wp and hp apply round(axis * p / 100 * density) / density to
\* every percentage p, unclamped; the result is non-negative for p >= 0, 0
\* for p = 0, no less than the whole axis for p > 100, and not positive for
\* p < 0.
C9_UniformUnclamped ==
    (loaded /\ ret.fn \in {"wp", "hp"} /\ ~IsNaN(ElemValue(ret.arg))) =>
      LET p == ElemValue(ret.arg)
          a == Num(DpAxis(ret.fn))
      IN  /\ ret.value =
               Div(MathRound(Mul(Div(Mul(a, p), Num(100)), pixelRatio)), pixelRatio)
          /\ Ge(p, Num(0)) => Ge(ret.value, Num(0))
          /\ p = Num(0) => ret.value = Num(0)
          /\ Gt(p, Num(100)) => Ge(ret.value, roundToNearestPixel(a))
          /\ Lt(p, Num(0)) => Le(ret.value, Num(0))

\* wp(150) has returned more than the width
C9_Witness ==
    /\ loaded
    /\ ret.fn = "wp"
    /\ ElemValue(ret.arg) = Num(150)
    /\ hook.width = 375
    /\ Gt(ret.value, Num(hook.width))

\* the viewport-unit functions, the axis each reads and its value at y
VpFns == {"vw", "vh", "viewportWidthPercentage", "viewportHeightPercentage"}

VpAxis(fn) ==
    CASE fn = "vw" -> hook.width
      [] fn = "vh" -> hook.height
      [] fn = "viewportWidthPercentage" -> screenWidth
      [] fn = "viewportHeightPercentage" -> screenHeight

VpApply(fn, y) ==
    CASE fn = "vw" -> vw(y)
      [] fn = "vh" -> vh(y)
      [] fn = "viewportWidthPercentage" -> viewportWidthPercentage(y)
      [] fn = "viewportHeightPercentage" -> viewportHeightPercentage(y)

C11_FontUpperClamp ==
    (/\ loaded
     /\ ret.fn \in {"rf", "responsiveFont"}
     /\ ret.arg.t = "number"
     /\ ~IsNaN(ret.arg.v)) =>
      LET size == ret.arg.v
      IN  /\ ret.value = (IF Le(size, Num(32)) THEN size ELSE Num(32))
          /\ Le(ret.value, Num(32))
          /\ Le(size, Num(32)) => ret.value = size
          /\ size = Num(40) => ret.value = Num(32)
          /\ baseFontSize * maxFontScaleFactor = 32

\* rf(-10) has returned -10 in a window that is not the base device's
C11_Witness ==
    /\ loaded
    /\ ret.fn = "rf"
    /\ ret.arg = Number(Num(-10))
    /\ ret.value = Num(-10)
    /\ hook.width = 1280 /\ hook.height = 600

\* the hook's conversion functions and the value of each at y
HookFns == {"wp", "hp", "vw", "vh", "rem", "rf"}

HookApply(fn, y) ==
    CASE fn = "wp" -> wp(y)
      [] fn = "hp" -> hp(y)
      [] fn = "vw" -> vw(y)
      [] fn = "vh" -> vh(y)
      [] fn = "rem" -> rem(y)
      [] fn = "rf" -> rf(y)

\* the strings with no leading number: nothing, letters, or a lone '%'
Malformed == { <<>>, <<"a", "b", "c">>, <<"%">> }

\* the numeric strings with a trailing '%' and the number each stands for
PercentStrings ==
    { [s |-> <<"5", "0", "%">>, v |-> Num(50)],
      [s |-> <<"1", "2", ".", "5", "%">>, v |-> Rat(25, 2)],
      [s |-> <<"-", "1", "0", "%">>, v |-> Num(-10)] }

\* C12: malformed input never raises: for a string with no parseable leading
\* number, wp, hp, vw, vh, rem and rf each return NaN (the call returns), and
\* a numeric string with a trailing '%' yields what the corresponding number
\* yields.
C12_MalformedIsNaN ==
    (loaded /\ ret.fn \in HookFns /\ ret.arg.t = "string") =>
      /\ ret.arg.s \in Malformed => IsNaN(ret.value)
      /\ \A e \in PercentStrings :
           ret.arg.s = e.s =>
             /\ ret.value = HookApply(ret.fn, Number(e.v))
             /\ ~IsNaN(ret.value)

\* wp("abc") has returned NaN
C12_Witness ==
    /\ loaded
    /\ ret.fn = "wp"
    /\ ret.arg = String(<<"a", "b", "c">>)
    /\ IsNaN(ret.value)
    /\ hook.width = 375

\* the mounted instance, when the last dimension change called its handler
HandledBy == { i \in Instances : i = mounted /\ \E k \in 1..Len(notified) : notified[k] = i }

\* C13: after every dimension change handled by listenOrientationChange the
\* component's state.orientation agrees with the orientation flags of the
\* new snapshot: 'portrait' exactly when width < height, 'landscape' exactly
\* when width > height; a square snapshot is not reported as landscape.
C13_OrientationStateAgrees ==
    loaded =>
      \A i \in HandledBy :
        /\ orientation[i] = "portrait" <=> window.width < window.height
        /\ orientation[i] = "landscape" <=> window.width > window.height
        /\ orientation[i] = "portrait" <=> hook.isPortrait
        /\ orientation[i] = "landscape" <=> hook.isLandscape

\* C14: after any sequence of dimension changes and listenOrientationChange /
\* removeOrientationListener calls, screenWidth and screenHeight are the
\* latest window's, and widthPercentageToDP, heightPercentageToDP,
\* viewportWidthPercentage and viewportHeightPercentage return what the
\* hook's wp, hp, vw and vh return for it.
C14_ModuleTracksWindow ==
    loaded =>
      /\ screenWidth = window.width
      /\ screenHeight = window.height
      /\ hook.width = window.width
      /\ hook.height = window.height
      /\ \A x \in Inputs :
           /\ widthPercentageToDP(x) = wp(x)
           /\ heightPercentageToDP(x) = hp(x)
           /\ viewportWidthPercentage(x) = vw(x)
           /\ viewportHeightPercentage(x) = vh(x)

=============================================================================
